---- MODULE Spec2Model ----
(***************************************************************************)
(* Knowledge-graph retrieval engine of harmoniq (backend-fastapi).         *)
(*                                                                         *)
(* RegulationGraphBuilder keeps a networkx DiGraph plus a map of node      *)
(* embeddings.  The graph is modelled as a record                          *)
(*   nodes : the node ids in insertion order (DiGraph iterates that way),  *)
(*   attr  : node id -> attribute dict,                                    *)
(*   adj   : <<u, v>> -> attribute dict of THE edge u -> v (a DiGraph      *)
(*           holds one attribute dict per ordered pair).                   *)
(* Attribute dicts are functions from key strings to values.  Python None  *)
(* is the value None.  Floats that the code stores as edge confidence are  *)
(* kept in tenths (10 is 1.0, 1 is 0.1).                                   *)
(***************************************************************************)
EXTENDS Integers, Sequences, FiniteSets, TLC

VARIABLES
    graph,            \* self.graph
    node_embeddings,  \* self.node_embeddings : node id -> vector
    disk,             \* the files written by save: path -> files or NoFile
    saved,            \* history: the builder as it was at the last save(path)
    pre,              \* history: self.graph before the last operation
    last,             \* history: the last operation, its argument and outcome
    opcount,          \* number of operations performed so far
    regulation_services,  \* _regulation_services : country_dir -> instance
    collection,       \* the "regulations" vector index of a jurisdiction
    tasks,            \* the coroutines in flight: position and locals of each
    temp,             \* the file at ./data/temp/<filename>
    history           \* history: what the calls so far were given and returned

buildervars == <<graph, node_embeddings, disk, saved, pre, last, opcount>>
svcvars == <<regulation_services, collection, tasks, temp, history>>
vars == <<buildervars, svcvars>>

---------------------------------------------------------------------------
(* Bounds and input sets *)

MaxOps == 3

None == "None"

Ids == {"A", "B"}
Paths == {"FDA-2024"}

\* RegulationClause values handed to add_clause_node.  embedding <<>> stands
\* for a clause without embedding (None or [], both falsy at line 39).
Clauses ==
    { [id |-> "A", text |-> "t1", section |-> "s1", clause_number |-> "REQ-001",
       requirement_type |-> "mandatory", severity |-> "high", embedding |-> <<1, 0>>],
      [id |-> "A", text |-> "t2", section |-> "s2", clause_number |-> "REQ-002",
       requirement_type |-> None, severity |-> None, embedding |-> <<>>],
      [id |-> "B", text |-> "t3", section |-> "s1", clause_number |-> "REQ-003",
       requirement_type |-> "recommended", severity |-> "low", embedding |-> <<0, 1>>],
      [id |-> "B", text |-> "t4", section |-> "s2", clause_number |-> "REQ-004",
       requirement_type |-> None, severity |-> "medium", embedding |-> <<>>] }

Predicates == {"RELATED_TO", "SIMILAR_TO"}
Confidences == {1, 10}
\* No caller in the repository sets RegulationTriplet.source: it stays at its
\* default (models/regulation.py:38).
Sources == {None}

\* RegulationTriplet values handed to add_triplet.
Triplets ==
    [subject : Ids, predicate : Predicates, object : Ids,
     confidence : Confidences, source : Sources]

---------------------------------------------------------------------------
(* Attribute dicts *)

EmptyDict == [k \in {} |-> None]

\* The builder specifications run without the service layer around them.
NoService ==
    /\ regulation_services = EmptyDict
    /\ collection = EmptyDict
    /\ tasks = EmptyDict
    /\ temp = EmptyDict
    /\ history = <<>>

\* dict.update: keys of e win, the other keys of d stay.
DictUpdate(d, e) ==
    [k \in (DOMAIN d) \cup (DOMAIN e) |-> IF k \in DOMAIN e THEN e[k] ELSE d[k]]

\* {k: v for k, v in d.items() if k not in keys}
DictWithout(d, keys) == [k \in (DOMAIN d) \ keys |-> d[k]]

\* dict.get(key, default)
DictGet(d, key, default) == IF key \in DOMAIN d THEN d[key] ELSE default

---------------------------------------------------------------------------
(* networkx.DiGraph *)

EmptyGraph == [nodes |-> <<>>, attr |-> EmptyDict, adj |-> EmptyDict]

\* A path at which nothing has been written.
NoFile ==
    [topology_exists |-> FALSE, topology |-> EmptyDict,
     embeddings_exists |-> FALSE, embeddings |-> EmptyDict]

\* Nothing saved yet at a path.
NotSaved == [valid |-> FALSE, graph |-> EmptyGraph, node_embeddings |-> EmptyDict]

NodeSet(g) == {g.nodes[i] : i \in 1..Len(g.nodes)}

has_node(g, n) == n \in NodeSet(g)

number_of_nodes(g) == Len(g.nodes)

number_of_edges(g) == Cardinality(DOMAIN g.adj)

\* DiGraph.add_node(n, **attrs): a new node is appended with attrs; for a
\* node already present the attribute dict is updated in place.
nx_add_node(g, n, attrs) ==
    IF has_node(g, n)
    THEN [g EXCEPT !.attr = [m \in DOMAIN g.attr |->
                                IF m = n THEN DictUpdate(g.attr[m], attrs) ELSE g.attr[m]]]
    ELSE [g EXCEPT !.nodes = Append(g.nodes, n),
                   !.attr = [m \in (DOMAIN g.attr) \cup {n} |->
                                IF m = n THEN attrs ELSE g.attr[m]]]

\* DiGraph.add_edge(u, v, **attrs): datadict = adj[u].get(v, {}) is updated
\* with attrs and stored back: one dict per ordered pair (u, v).
nx_add_edge(g, u, v, attrs) ==
    LET g1 == IF has_node(g, u) THEN g ELSE nx_add_node(g, u, EmptyDict)
        g2 == IF has_node(g1, v) THEN g1 ELSE nx_add_node(g1, v, EmptyDict)
        old == IF <<u, v>> \in DOMAIN g2.adj THEN g2.adj[<<u, v>>] ELSE EmptyDict
    IN  [g2 EXCEPT !.adj = [e \in (DOMAIN g2.adj) \cup {<<u, v>>} |->
                               IF e = <<u, v>> THEN DictUpdate(old, attrs) ELSE g2.adj[e]]]

---------------------------------------------------------------------------
(* RegulationGraphBuilder: construction *)

ClauseAttrs(clause) ==
    [type |-> "clause", text |-> clause.text, section |-> clause.section,
     clause_number |-> clause.clause_number,
     requirement_type |-> clause.requirement_type, severity |-> clause.severity]

\* add_clause_node: the graph part.
add_clause_node_graph(g, clause) == nx_add_node(g, clause.id, ClauseAttrs(clause))

\* add_clause_node: the embedding part (only a truthy embedding is stored).
add_clause_node_emb(emb, clause) ==
    IF clause.embedding # <<>>
    THEN [n \in (DOMAIN emb) \cup {clause.id} |->
             IF n = clause.id THEN clause.embedding ELSE emb[n]]
    ELSE emb

\* Variant of add_triplet without the has_node tests: both endpoints are
\* always passed to add_node(type="unknown").
add_triplet_always_unknown(g, t) ==
    nx_add_edge(nx_add_node(nx_add_node(g, t.subject, [type |-> "unknown"]),
                            t.object, [type |-> "unknown"]),
                t.subject, t.object,
                [relation |-> t.predicate, confidence |-> t.confidence,
                 source |-> t.source])

\* add_triplet: missing endpoints become "unknown" nodes, then add_edge.
add_triplet(g, t) ==
    LET g1 == IF ~has_node(g, t.subject)
              THEN nx_add_node(g, t.subject, [type |-> "unknown"]) ELSE g
        g2 == IF ~has_node(g1, t.object)
              THEN nx_add_node(g1, t.object, [type |-> "unknown"]) ELSE g1
    IN  nx_add_edge(g2, t.subject, t.object,
                    [relation |-> t.predicate, confidence |-> t.confidence,
                     source |-> t.source])

---------------------------------------------------------------------------
(* RegulationGraphBuilder: persistence *)

\* Variant of node_link_data in which an edge attribute named "source" or
\* "target" wins over the endpoint ({source: u, target: v, **d}).
node_link_data_attr_wins(g) ==
    [directed |-> TRUE,
     multigraph |-> FALSE,
     nodes |-> [i \in 1..Len(g.nodes) |->
                  DictUpdate(g.attr[g.nodes[i]], [id |-> g.nodes[i]])],
     links |-> {DictUpdate([source |-> e[1], target |-> e[2]], g.adj[e]) :
                  e \in DOMAIN g.adj}]

\* networkx.node_link_data(G, edges='links'): every node dict gets the key
\* "id", every edge dict gets the keys "source" and "target"; these keys are
\* written last, over an attribute of the same name.
node_link_data(g) ==
    [directed |-> TRUE,
     multigraph |-> FALSE,
     nodes |-> [i \in 1..Len(g.nodes) |->
                  DictUpdate(g.attr[g.nodes[i]], [id |-> g.nodes[i]])],
     links |-> {DictUpdate(g.adj[e], [source |-> e[1], target |-> e[2]]) :
                  e \in DOMAIN g.adj}]

RECURSIVE add_nodes_from(_, _, _)
add_nodes_from(g, nodes, i) ==
    IF i > Len(nodes) THEN g
    ELSE add_nodes_from(nx_add_node(g, nodes[i].id, DictWithout(nodes[i], {"id"})),
                        nodes, i + 1)

RECURSIVE add_edges_from(_, _)
add_edges_from(g, links) ==
    IF links = {} THEN g
    ELSE LET d == CHOOSE x \in links : TRUE
         IN  add_edges_from(
                 nx_add_edge(g, d.source, d.target, DictWithout(d, {"source", "target"})),
                 links \ {d})

\* networkx.node_link_graph(data, edges='links'): nodes first, in file order,
\* each with its dict minus "id"; then edges, each with its dict minus
\* "source" and "target".
node_link_graph(data) ==
    add_edges_from(add_nodes_from(EmptyGraph, data.nodes, 1), data.links)

\* Path(filepath).with_suffix('.embeddings.npz'): paths are modelled by their
\* stem, so the topology file and its companion are the two fields of
\* disk[path].
save_files(g, emb) ==
    [topology_exists |-> TRUE,
     topology |-> node_link_data(g),   \* json.dump(graph_data, f)
     embeddings_exists |-> TRUE,
     embeddings |-> emb]               \* np.savez(embedding_file, **node_embeddings)

\* load: the graph read back from the topology file.
load_graph(files) == node_link_graph(files.topology)

\* load: the embedding map afterwards; the builder's map is replaced only
\* when the companion file exists.
load_embeddings(emb, files) ==
    IF files.embeddings_exists THEN files.embeddings ELSE emb

---------------------------------------------------------------------------
(* Specification of the builder *)

NoOp == [op |-> "init", arg |-> None, result |-> None]

Init ==
    /\ graph = EmptyGraph
    /\ node_embeddings = EmptyDict
    /\ disk = [p \in Paths |-> NoFile]
    /\ saved = [p \in Paths |-> NotSaved]
    /\ pre = EmptyGraph
    /\ last = NoOp
    /\ opcount = 0
    /\ NoService

AddClauseNode ==
    \E clause \in Clauses :
        /\ opcount < MaxOps
        /\ graph' = add_clause_node_graph(graph, clause)
        /\ node_embeddings' = add_clause_node_emb(node_embeddings, clause)
        /\ pre' = graph
        /\ last' = [op |-> "add_clause_node", arg |-> clause, result |-> None]
        /\ opcount' = opcount + 1
        /\ UNCHANGED <<disk, saved>>
        /\ UNCHANGED svcvars

AddTriplet ==
    \E t \in Triplets :
        /\ opcount < MaxOps
        /\ graph' = add_triplet(graph, t)
        /\ pre' = graph
        /\ last' = [op |-> "add_triplet", arg |-> t, result |-> None]
        /\ opcount' = opcount + 1
        /\ UNCHANGED <<node_embeddings, disk, saved>>
        /\ UNCHANGED svcvars

\* save(filepath)
Save ==
    \E p \in Paths :
        /\ opcount < MaxOps
        /\ disk' = [disk EXCEPT ![p] = save_files(graph, node_embeddings)]
        /\ saved' = [saved EXCEPT ![p] =
                        [valid |-> TRUE, graph |-> graph,
                         node_embeddings |-> node_embeddings]]
        /\ pre' = graph
        /\ last' = [op |-> "save", arg |-> p, result |-> None]
        /\ opcount' = opcount + 1
        /\ UNCHANGED <<graph, node_embeddings>>
        /\ UNCHANGED svcvars

\* load(filepath) on the builder as it is; open() raises FileNotFoundError
\* before anything is assigned when the topology file does not exist.
Load ==
    \E p \in Paths :
        /\ opcount < MaxOps
        /\ IF ~disk[p].topology_exists
           THEN /\ last' = [op |-> "load", arg |-> [path |-> p, fresh |-> FALSE],
                             result |-> "FileNotFoundError"]
                /\ UNCHANGED <<graph, node_embeddings>>
           ELSE /\ graph' = load_graph(disk[p])
                /\ node_embeddings' = load_embeddings(node_embeddings, disk[p])
                /\ last' = [op |-> "load", arg |-> [path |-> p, fresh |-> FALSE],
                             result |-> None]
        /\ pre' = graph
        /\ opcount' = opcount + 1
        /\ UNCHANGED <<disk, saved>>
        /\ UNCHANGED svcvars

\* RegulationGraphBuilder() followed by load(filepath) of an existing
\* snapshot, as RegulationService.__init__ does.
LoadFresh ==
    \E p \in Paths :
        /\ opcount < MaxOps
        /\ disk[p].topology_exists
        /\ graph' = load_graph(disk[p])
        /\ node_embeddings' = load_embeddings(EmptyDict, disk[p])
        /\ last' = [op |-> "load", arg |-> [path |-> p, fresh |-> TRUE], result |-> None]
        /\ pre' = graph
        /\ opcount' = opcount + 1
        /\ UNCHANGED <<disk, saved>>
        /\ UNCHANGED svcvars

\* The companion embedding file of a snapshot is absent: removed, or the
\* topology file was copied alone (load tests embedding_file.exists()).
RemoveEmbeddingFile ==
    \E p \in Paths :
        /\ disk[p].embeddings_exists
        /\ disk' = [disk EXCEPT ![p] = [@ EXCEPT !.embeddings_exists = FALSE,
                                                 !.embeddings = EmptyDict]]
        /\ pre' = graph
        /\ last' = [op |-> "remove_embedding_file", arg |-> p, result |-> None]
        /\ UNCHANGED <<graph, node_embeddings, saved, opcount>>
        /\ UNCHANGED svcvars

Next ==
    \/ AddClauseNode
    \/ AddTriplet
    \/ Save
    \/ Load
    \/ LoadFresh
    \/ RemoveEmbeddingFile

Spec == Init /\ [][Next]_vars

---------------------------------------------------------------------------
(* Specification of the persistence codec: save and load applied to the    *)
(* builders that at most MaxBuild add_clause_node / add_triplet calls      *)
(* produce from an empty builder.                                          *)

MaxBuild == 2

EmptyBuilder == [graph |-> EmptyGraph, node_embeddings |-> EmptyDict]

RECURSIVE Built(_)
Built(k) ==
    IF k = 0 THEN {EmptyBuilder}
    ELSE LET B == Built(k - 1)
         IN  B \cup { [graph |-> add_clause_node_graph(b.graph, c),
                       node_embeddings |-> add_clause_node_emb(b.node_embeddings, c)] :
                         b \in B, c \in Clauses }
               \cup { [graph |-> add_triplet(b.graph, t),
                       node_embeddings |-> b.node_embeddings] :
                         b \in B, t \in Triplets }

BuiltBuilders == Built(MaxBuild)

InitCodec ==
    /\ \E b \in BuiltBuilders : graph = b.graph /\ node_embeddings = b.node_embeddings
    /\ disk = [p \in Paths |-> NoFile]
    /\ saved = [p \in Paths |-> NotSaved]
    /\ pre = EmptyGraph
    /\ last = NoOp
    /\ opcount = 0
    /\ NoService

NextCodec ==
    \/ Save
    \/ Load
    \/ LoadFresh

SpecCodec == InitCodec /\ [][NextCodec]_vars

---------------------------------------------------------------------------
(* Specification of load on a snapshot whose companion file belongs to       *)
(* another save.  save writes the topology file and then the companion       *)
(* file (lines 256-261), and nothing ties the two together: the companion    *)
(* found next to a topology file may hold the embeddings of a different      *)
(* builder.                                                                  *)

\* The embedding maps a companion file can hold.
CompanionMaps == {b.node_embeddings : b \in Built(1)}

InitMismatch ==
    /\ graph = EmptyGraph
    /\ node_embeddings = EmptyDict
    /\ \E b \in BuiltBuilders, emb \in CompanionMaps :
          /\ disk = [p \in Paths |-> save_files(b.graph, emb)]
          /\ saved = [p \in Paths |->
                        [valid |-> TRUE, graph |-> b.graph, node_embeddings |-> emb]]
    /\ pre = EmptyGraph
    /\ last = NoOp
    /\ opcount = 0
    /\ NoService

NextMismatch == LoadFresh

SpecMismatch == InitMismatch /\ [][NextMismatch]_vars

---------------------------------------------------------------------------
(* Edge weights *)

\* Variant of EdgeWeight that ignores the attribute: every edge counts 1.0.
EdgeWeight_unweighted(d) == 10

\* The weight PageRank reads from an edge dict (weight='confidence'; an edge
\* without the attribute counts 1.0).
EdgeWeight(d) == DictGet(d, "confidence", 10)

RECURSIVE SumWeights(_, _)
SumWeights(g, edges) ==
    IF edges = {} THEN 0
    ELSE LET e == CHOOSE x \in edges : TRUE
         IN  EdgeWeight(g.adj[e]) + SumWeights(g, edges \ {e})

\* Total outgoing weight of node u.
OutWeight(g, u) == SumWeights(g, {e \in DOMAIN g.adj : e[1] = u})

---------------------------------------------------------------------------
(* Personalized PageRank                                                   *)
(*                                                                         *)
(* Scores are floats in the code; here a score x is the integer            *)
(* floor(x * Scale).  Products are divided before they can leave the       *)
(* 32-bit range.                                                           *)

Scale == 10 ^ 7

AlphaNum == 85          \* alpha = 0.85 = AlphaNum / AlphaDen
AlphaDen == 100
TolInv == 1000000       \* tol = 1e-6 = 1 / TolInv
DefaultMaxIter == 100   \* max_iter = 100
FallbackInv == 100      \* 0.01 = 1 / FallbackInv

RECURSIVE SumOver(_, _)
SumOver(f, S) ==
    IF S = {} THEN 0
    ELSE LET x == CHOOSE y \in S : TRUE
         IN  f[x] + SumOver(f, S \ {x})

Abs(i) == IF i < 0 THEN -i ELSE i

SeqToSet(q) == {q[i] : i \in 1..Len(q)}

\* Variant of valid_seeds_of that keeps the absent ids of a list in which
\* some id is present.
valid_seeds_of_unfiltered(g, seed_nodes) ==
    IF \E i \in 1..Len(seed_nodes) : has_node(g, seed_nodes[i]) THEN seed_nodes ELSE <<>>

\* [node for node in seed_nodes if self.graph.has_node(node)]
valid_seeds_of(g, seed_nodes) == SelectSeq(seed_nodes, LAMBDA n : has_node(g, n))

\* Variant of zero_scores that spreads the mass evenly instead.
zero_scores_even(g) == [n \in NodeSet(g) |-> Scale \div number_of_nodes(g)]

\* {node: 0.0 for node in self.graph.nodes()}
zero_scores(g) == [n \in NodeSet(g) |-> 0]

\* Variant of uniform_scores without the division by the number of nodes.
uniform_scores_undivided(g) == [n \in NodeSet(g) |-> Scale]

\* {node: 1.0 / self.graph.number_of_nodes() for node in self.graph.nodes()}
uniform_scores(g) == [n \in NodeSet(g) |-> Scale \div number_of_nodes(g)]

\* fallback_scores: 0.01 for every node, then 1.0 / len(valid_seeds) for
\* every valid seed.
fallback_scores(g, valid_seeds) ==
    [n \in NodeSet(g) |->
        IF n \in SeqToSet(valid_seeds) THEN Scale \div Len(valid_seeds)
        ELSE Scale \div FallbackInv]

\* personalization: 0.0 for every node, 1.0 / len(valid_seeds) for every
\* valid seed; kept as numerators over the denominator len(valid_seeds).
personalization(g, valid_seeds) ==
    [n \in NodeSet(g) |-> IF n \in SeqToSet(valid_seeds) THEN 1 ELSE 0]

\* nx.pagerank: row sums of the weight matrix (S = A.sum(axis=1)).
RowSum(g, u) == OutWeight(g, u)

\* nx.pagerank: p = personalization / personalization.sum()
pagerank_p(g, pers) ==
    LET total == SumOver(pers, NodeSet(g))
    IN  [n \in NodeSet(g) |-> (pers[n] * Scale) \div total]

\* nx.pagerank: (x @ A)[v] with A row-normalised; rows of sum 0 stay 0.
pagerank_inflow(g, x, v) ==
    LET preds == {e \in DOMAIN g.adj : e[2] = v /\ RowSum(g, e[1]) # 0}
        term == [e \in preds |-> (x[e[1]] * EdgeWeight(g.adj[e])) \div RowSum(g, e[1])]
    IN  SumOver(term, preds)

\* Variant of pagerank_dangling in which the mass of dangling nodes is lost.
pagerank_dangling_lost(g, pers, x, v) == 0

\* nx.pagerank: sum(x[is_dangling]) * dangling_weights[v], dangling_weights = p.
pagerank_dangling(g, pers, x, v) ==
    LET dangling == {u \in NodeSet(g) : RowSum(g, u) = 0}
        total == SumOver(pers, NodeSet(g))
    IN  (SumOver(x, dangling) * pers[v]) \div total

\* nx.pagerank: x = alpha * (x @ A + sum(x[is_dangling]) * p) + (1 - alpha) * p
pagerank_step(g, pers, x) ==
    LET p == pagerank_p(g, pers)
    IN  [v \in NodeSet(g) |->
            (AlphaNum * (pagerank_inflow(g, x, v) + pagerank_dangling(g, pers, x, v))
               + (AlphaDen - AlphaNum) * p[v]) \div AlphaDen]

\* nx.pagerank: err = np.absolute(x - xlast).sum()
l1_change(g, x, xlast) ==
    SumOver([n \in NodeSet(g) |-> Abs(x[n] - xlast[n])], NodeSet(g))

\* nx.pagerank: one pass of the loop body.  st.x is the iterate, st.converged
\* says that the loop has returned it (err < N * tol).
\* (The new iterate is bound as an element of a singleton set, which makes it
\* a value before it is read.)
iteration(g, pers, st) ==
    IF st.converged THEN st
    ELSE CHOOSE r \in
           { [x |-> x,
              converged |-> l1_change(g, x, st.x) < (number_of_nodes(g) * Scale) \div TolInv] :
               x \in {pagerank_step(g, pers, st.x)} } : TRUE

\* nx.pagerank: for _ in range(n): the loop body n times, evaluated by halves.
RECURSIVE iterations(_, _, _, _)
iterations(g, pers, st, n) ==
    IF n = 0 THEN st
    ELSE IF n = 1 THEN iteration(g, pers, st)
    ELSE CHOOSE r \in
           { iterations(g, pers, mid, n - (n \div 2)) :
               mid \in {iterations(g, pers, st, n \div 2)} } : TRUE

\* nx.pagerank(G, alpha, personalization, max_iter, tol, weight='confidence'),
\* started from x = 1/N; PowerIterationFailedConvergence when the loop ends
\* without having returned.
nx_pagerank(g, pers, max_iter) ==
    iterations(g, pers, [x |-> uniform_scores(g), converged |-> FALSE], max_iter)

Returned(path, scores) ==
    [status |-> "return", path |-> path, scores |-> scores, exc |-> None]

Raised(path, exc) ==
    [status |-> "raise", path |-> path, scores |-> EmptyDict, exc |-> exc]

\* Variant of personalized_pagerank without the empty-graph test, computing
\* 1.0 / number_of_nodes() before the comprehension over the nodes.
personalized_pagerank_no_empty_test(g, seed_nodes, max_iter, pagerank_error) ==
    IF seed_nodes = <<>> THEN Returned("no_seeds", zero_scores(g))
    ELSE LET valid_seeds == valid_seeds_of(g, seed_nodes)
         IN  IF valid_seeds = <<>>
             THEN IF number_of_nodes(g) = 0
                  THEN Raised("no_valid_seed", "ZeroDivisionError")
                  ELSE Returned("no_valid_seed", uniform_scores(g))
             ELSE IF pagerank_error
                  THEN Returned("fallback", fallback_scores(g, valid_seeds))
             ELSE CHOOSE out \in
                    { IF r.converged THEN Returned("success", r.x)
                      ELSE Raised("not_converged", "AttributeError") :
                        r \in {nx_pagerank(g, personalization(g, valid_seeds), max_iter)} } :
                    TRUE

\* personalized_pagerank(seed_nodes, alpha=0.85, max_iter).  pagerank_error
\* says whether nx.pagerank fails with an error other than non-convergence.
\* PowerIterationFailedConvergence carries no attribute pagerank, so the
\* handler at line 220 raises AttributeError, which leaves the function.
personalized_pagerank(g, seed_nodes, max_iter, pagerank_error) ==
    IF seed_nodes = <<>> THEN Returned("no_seeds", zero_scores(g))
    ELSE IF number_of_nodes(g) = 0 THEN Returned("empty_graph", EmptyDict)
    ELSE LET valid_seeds == valid_seeds_of(g, seed_nodes)
         IN  IF valid_seeds = <<>> THEN Returned("no_valid_seed", uniform_scores(g))
             ELSE IF pagerank_error
                  THEN Returned("fallback", fallback_scores(g, valid_seeds))
             ELSE CHOOSE out \in
                    { IF r.converged THEN Returned("success", r.x)
                      ELSE Raised("not_converged", "AttributeError") :
                        r \in {nx_pagerank(g, personalization(g, valid_seeds), max_iter)} } :
                    TRUE

---------------------------------------------------------------------------
(* Specification of personalized_pagerank: one call on a graph built from  *)
(* a list of clauses and a set of triplets.                                *)

MaxSeeds == 2

PprClauses ==
    [n \in {"A", "B", "C", "D", "E"} |->
        [id |-> n, text |-> "t1", section |-> "s1", clause_number |-> "REQ-001",
         requirement_type |-> "mandatory", severity |-> "high", embedding |-> <<>>]]

PprClauseLists == {<<>>, <<"A">>, <<"A", "B">>, <<"A", "B", "C">>}

\* Edges of weight 1.0 and 0.1, and two edges of weight 0.0 (an edge whose
\* weight is zero leaves the row sum of its source unchanged).
PprTriplets ==
    [subject : {"A", "B"}, predicate : {"RELATED_TO"}, object : {"A", "B", "C"},
     confidence : Confidences, source : Sources]
    \cup [subject : {"A"}, predicate : {"SIMILAR_TO"}, object : {"B", "C"},
          confidence : {0}, source : Sources]

PprTripletSets == {T \in SUBSET PprTriplets : Cardinality(T) <= 2}

\* Ids a vector search may return; "Z" is never a node of the graph.
SeedIds == {"A", "B", "Z"}

RECURSIVE SeqsUpTo(_, _)
SeqsUpTo(S, n) ==
    IF n = 0 THEN {<<>>}
    ELSE LET shorter == SeqsUpTo(S, n - 1)
         IN  shorter \cup {Append(q, x) : q \in shorter, x \in S}

\* Seed lists: the short ones, and one id repeated 1 / 0.01 times.
SeedLists ==
    SeqsUpTo(SeedIds, MaxSeeds) \cup {[i \in 1..FallbackInv |-> n] : n \in SeedIds}

MaxIters == {2, DefaultMaxIter}

RECURSIVE add_clause_nodes(_, _, _)
add_clause_nodes(g, ids, i) ==
    IF i > Len(ids) THEN g
    ELSE add_clause_nodes(add_clause_node_graph(g, PprClauses[ids[i]]), ids, i + 1)

RECURSIVE add_triplets(_, _)
add_triplets(g, T) ==
    IF T = {} THEN g
    ELSE LET t == CHOOSE x \in T : TRUE
         IN  add_triplets(add_triplet(g, t), T \ {t})

PprGraphs ==
    {add_triplets(add_clause_nodes(EmptyGraph, ids, 1), T) :
        ids \in PprClauseLists, T \in PprTripletSets}

InitPPR ==
    /\ graph \in PprGraphs
    /\ node_embeddings = EmptyDict
    /\ disk = [p \in Paths |-> NoFile]
    /\ saved = [p \in Paths |-> NotSaved]
    /\ pre = EmptyGraph
    /\ last = NoOp
    /\ opcount = 0
    /\ NoService

PersonalizedPagerank ==
    \E seed_nodes \in SeedLists : \E max_iter \in MaxIters : \E pagerank_error \in BOOLEAN :
        /\ opcount = 0
        /\ last' = [op |-> "personalized_pagerank",
                    arg |-> [seed_nodes |-> seed_nodes, max_iter |-> max_iter,
                             pagerank_error |-> pagerank_error],
                    result |-> personalized_pagerank(graph, seed_nodes, max_iter,
                                                     pagerank_error)]
        /\ pre' = graph
        /\ opcount' = opcount + 1
        /\ UNCHANGED <<graph, node_embeddings, disk, saved>>
        /\ UNCHANGED svcvars

NextPPR == PersonalizedPagerank

SpecPPR == InitPPR /\ [][NextPPR]_vars

---------------------------------------------------------------------------
(* Specification of personalized_pagerank on a seed with two outgoing      *)
(* edges: A -> B and A -> C, each with a weight of its own, in graphs that *)
(* hold further clause nodes no edge refers to.                            *)

\* Edge weights in tenths.
Weights == {1, 2, 5, 10}

WeightedClauseLists ==
    {<<"A", "B", "C">>, <<"A", "B", "C", "D">>, <<"D", "C", "B", "A">>,
     <<"A", "D", "B", "E", "C">>}

WeightedGraphs ==
    {add_triplet(
         add_triplet(add_clause_nodes(EmptyGraph, ids, 1),
                     [subject |-> "A", predicate |-> "RELATED_TO", object |-> "B",
                      confidence |-> w1, source |-> None]),
         [subject |-> "A", predicate |-> "SIMILAR_TO", object |-> "C",
          confidence |-> w2, source |-> None]) :
        ids \in WeightedClauseLists, w1 \in Weights, w2 \in Weights}

InitWeighted ==
    /\ graph \in WeightedGraphs
    /\ node_embeddings = EmptyDict
    /\ disk = [p \in Paths |-> NoFile]
    /\ saved = [p \in Paths |-> NotSaved]
    /\ pre = EmptyGraph
    /\ last = NoOp
    /\ opcount = 0
    /\ NoService

NextWeighted == PersonalizedPagerank

SpecWeighted == InitWeighted /\ [][NextWeighted]_vars

---------------------------------------------------------------------------
(* RegulationService.retrieve_with_hipporag                                *)

NResults == 5           \* n_results=5: the vector search returns at most 5 ids
DefaultTopK == 10     \* top_k: int = 10

\* The loop at lines 652-658: the ids of the vector search that are nodes.
service_valid_seeds(g, seed_node_ids) ==
    SelectSeq(seed_node_ids, LAMBDA sid : has_node(g, sid))

\* sorted(ppr_scores.items(), key=lambda x: x[1], reverse=True).  The items
\* come in the order of the graph's nodes; the sort is stable, also with
\* reverse=True, so items of equal score keep that order.
sorted_by_score(nodes, scores) ==
    LET n == Len(nodes)
        before(i, j) == \/ scores[nodes[i]] > scores[nodes[j]]
                        \/ scores[nodes[i]] = scores[nodes[j]] /\ i < j
        rank(i) == Cardinality({j \in 1..n : before(j, i)})
    IN  [k \in 1..n |-> nodes[CHOOSE i \in 1..n : rank(i) = k - 1]]

\* ranked_nodes[:top_k], with Python's meaning of a negative bound.
slice_to(q, top_k) ==
    IF top_k >= 0
    THEN SubSeq(q, 1, IF top_k < Len(q) THEN top_k ELSE Len(q))
    ELSE SubSeq(q, 1, IF Len(q) + top_k > 0 THEN Len(q) + top_k ELSE 0)

\* get_node_data(node_id): dict(self.graph.nodes[node_id]) or None
get_node_data(g, node_id) == IF has_node(g, node_id) THEN g.attr[node_id] ELSE EmptyDict

\* Variant of is_clause that accepts every node of the graph.
is_clause_any_node(g, node_id) == has_node(g, node_id)

\* node_data and node_data.get('type') == 'clause'
is_clause(g, node_id) ==
    /\ has_node(g, node_id)
    /\ DOMAIN get_node_data(g, node_id) # {}
    /\ DictGet(get_node_data(g, node_id), "type", None) = "clause"

\* One entry of results.
result_entry(g, node_id, ppr_score) ==
    [clause_id |-> node_id,
     text |-> DictGet(get_node_data(g, node_id), "text", ""),
     ppr_score |-> ppr_score,
     section |-> DictGet(get_node_data(g, node_id), "section", ""),
     severity |-> DictGet(get_node_data(g, node_id), "severity", "")]

\* Steps 3 and 4: rank all nodes, cut the ranking at top_k, then keep the
\* nodes of type "clause" among those.
assemble_results(g, ppr_scores, top_k) ==
    LET ranked_nodes == sorted_by_score(g.nodes, ppr_scores)
        kept == SelectSeq(slice_to(ranked_nodes, top_k), LAMBDA n : is_clause(g, n))
    IN  [i \in 1..Len(kept) |-> result_entry(g, kept[i], ppr_scores[kept[i]])]

RetrieveReturned(path, results) ==
    [status |-> "return", path |-> path, results |-> results, exc |-> None]

RetrieveRaised(path, exc) ==
    [status |-> "raise", path |-> path, results |-> <<>>, exc |-> exc]

\* retrieve_with_hipporag(query_text, country, top_k), given the ids the
\* vector search returned for the query.  personalized_pagerank is called
\* with its default max_iter; what it raises leaves the function.
retrieve_with_hipporag(g, seed_node_ids, top_k, pagerank_error) ==
    IF seed_node_ids = <<>> THEN RetrieveReturned("no_vector_results", <<>>)
    ELSE IF service_valid_seeds(g, seed_node_ids) = <<>>
    THEN RetrieveReturned("no_valid_seeds", <<>>)
    ELSE CHOOSE out \in
           { IF r.status = "raise" THEN RetrieveRaised(r.path, r.exc)
             ELSE IF DOMAIN r.scores = {} THEN RetrieveReturned("empty_scores", <<>>)
             ELSE RetrieveReturned(r.path, assemble_results(g, r.scores, top_k)) :
               r \in {personalized_pagerank(g, seed_node_ids, DefaultMaxIter,
                                            pagerank_error)} } : TRUE

---------------------------------------------------------------------------
(* Specification of retrieve_with_hipporag: one call on a graph built from *)
(* a list of clauses and a set of triplets; an id no clause of the list    *)
(* carries becomes a placeholder node of type "unknown".                   *)

MaxTopK == 3

TopKs == 0..MaxTopK

RetrieveClauseLists == {<<>>, <<"A">>, <<"A", "B">>, <<"B", "A">>, <<"C", "B", "A">>}

RetrieveTriplets ==
    [subject : {"A", "B"}, predicate : {"RELATED_TO"}, object : {"A", "B", "C"},
     confidence : {10}, source : Sources]
    \cup [subject : {"A"}, predicate : {"SIMILAR_TO"}, object : {"C"},
          confidence : {1}, source : Sources]

RetrieveTripletSets == {T \in SUBSET RetrieveTriplets : Cardinality(T) <= 2}

RetrieveGraphs ==
    {add_triplets(add_clause_nodes(EmptyGraph, ids, 1), T) :
        ids \in RetrieveClauseLists, T \in RetrieveTripletSets}

\* vector_results['ids'][0]: at most n_results ids, no id twice.
VectorIdLists ==
    {q \in SeqsUpTo(SeedIds, Cardinality(SeedIds)) :
        /\ Len(q) <= NResults
        /\ \A i \in 1..Len(q) : \A j \in 1..Len(q) : q[i] = q[j] => i = j}

InitRetrieve ==
    /\ graph \in RetrieveGraphs
    /\ node_embeddings = EmptyDict
    /\ disk = [p \in Paths |-> NoFile]
    /\ saved = [p \in Paths |-> NotSaved]
    /\ pre = EmptyGraph
    /\ last = NoOp
    /\ opcount = 0
    /\ NoService

RetrieveWithHipporag ==
    \E seed_node_ids \in VectorIdLists : \E top_k \in TopKs : \E pagerank_error \in BOOLEAN :
        /\ opcount = 0
        /\ last' = [op |-> "retrieve_with_hipporag",
                    arg |-> [seed_node_ids |-> seed_node_ids, top_k |-> top_k,
                             pagerank_error |-> pagerank_error],
                    result |-> retrieve_with_hipporag(graph, seed_node_ids, top_k,
                                                      pagerank_error)]
        /\ pre' = graph
        /\ opcount' = opcount + 1
        /\ UNCHANGED <<graph, node_embeddings, disk, saved>>
        /\ UNCHANGED svcvars

NextRetrieve == RetrieveWithHipporag

SpecRetrieve == InitRetrieve /\ [][NextRetrieve]_vars

---------------------------------------------------------------------------
(* Similarity edges, neighbour edges and build_knowledge_graph             *)
(*                                                                         *)
(* Embeddings are vectors of small integers.  A cosine similarity is kept  *)
(* exactly, as the fraction num / den that equals sign(cos) * cos^2, which *)
(* orders like the cosine itself.  The loops bind each intermediate graph  *)
(* as the element of a singleton set, which makes it a value before the    *)
(* next step reads it.                                                     *)

RECURSIVE dot_from(_, _, _)
dot_from(a, b, i) ==
    IF i > Len(a) THEN 0 ELSE a[i] * b[i] + dot_from(a, b, i + 1)

dot(a, b) == dot_from(a, b, 1)

\* sklearn cosine_similarity of two rows (a row of norm 0 gives 0).
cosine_similarity(a, b) ==
    LET d == dot(a, b)
        n == dot(a, a) * dot(b, b)
    IN  IF n = 0 THEN [num |-> 0, den |-> 1]
        ELSE [num |-> IF d < 0 THEN -(d * d) ELSE d * d, den |-> n]

cosine_less(x, y) == x.num * y.den < y.num * x.den

\* sim_score >= similarity_threshold, the threshold given in hundredths
\* (80 is 0.80) and not negative.
cosine_at_least(x, threshold) ==
    /\ x.num >= 0
    /\ x.num * 100 * 100 >= threshold * threshold * x.den

\* The two orders in which np.argsort may leave equal keys: by ascending
\* index (a stable sort) or by descending index.
TieOrders == {"ascending_index", "descending_index"}

\* np.argsort(similarities): the indices in ascending order of similarity.
argsort(similarities, tie_order) ==
    LET n == Len(similarities)
        before(i, j) ==
            \/ cosine_less(similarities[i], similarities[j])
            \/ /\ ~cosine_less(similarities[j], similarities[i])
               /\ IF tie_order = "ascending_index" THEN i < j ELSE i > j
        rank(i) == Cardinality({j \in 1..n : before(j, i)})
    IN  [k \in 1..n |-> CHOOSE i \in 1..n : rank(i) = k - 1]

\* q[::-1]
reversed(q) == [k \in 1..Len(q) |-> q[Len(q) + 1 - k]]

\* Variant of similar_indices without the cap: every index after the first.
similar_indices_uncapped(similarities, i, max_edges_per_node, tie_order) ==
    SubSeq(reversed(argsort(similarities, tie_order)), 2, Len(similarities))

\* np.argsort(similarities)[::-1][1:max_edges_per_node + 1]: the first index
\* of the descending order is dropped, whichever index it is.
similar_indices(similarities, i, max_edges_per_node, tie_order) ==
    LET desc == reversed(argsort(similarities, tie_order))
        upto == IF max_edges_per_node + 1 < Len(desc)
                THEN max_edges_per_node + 1 ELSE Len(desc)
    IN  SubSeq(desc, 2, upto)

\* clause_ids: the ids of the clauses, in list order, that have an entry in
\* self.node_embeddings (an id that occurs twice in the list occurs twice).
embedded_clause_ids(emb, clauses) ==
    LET kept == SelectSeq(clauses, LAMBDA c : c.id \in DOMAIN emb)
    IN  [k \in 1..Len(kept) |-> kept[k].id]

\* similarity_matrix[i]
similarity_row(emb, clause_ids, i) ==
    [j \in 1..Len(clause_ids) |-> cosine_similarity(emb[clause_ids[i]], emb[clause_ids[j]])]

\* The pairs <<i, j>> for which the inner loop adds an edge, in loop order,
\* from row i on.
RECURSIVE similar_pairs_from(_, _, _, _, _, _)
similar_pairs_from(emb, clause_ids, i, similarity_threshold, max_edges_per_node, tie_order) ==
    IF i > Len(clause_ids) THEN <<>>
    ELSE LET row == similarity_row(emb, clause_ids, i)
             js == SelectSeq(similar_indices(row, i, max_edges_per_node, tie_order),
                             LAMBDA j : cosine_at_least(row[j], similarity_threshold))
         IN  [k \in 1..Len(js) |-> <<i, js[k]>>]
             \o similar_pairs_from(emb, clause_ids, i + 1, similarity_threshold,
                                   max_edges_per_node, tie_order)

RECURSIVE add_similar_triplets(_, _, _, _, _)
add_similar_triplets(g, clause_ids, pairs, k, edge_weight) ==
    IF k > Len(pairs) THEN g
    ELSE CHOOSE r \in
           { add_similar_triplets(g1, clause_ids, pairs, k + 1, edge_weight) :
               g1 \in {add_triplet(g, [subject |-> clause_ids[pairs[k][1]],
                                       predicate |-> "SIMILAR_TO",
                                       object |-> clause_ids[pairs[k][2]],
                                       confidence |-> edge_weight,
                                       source |-> None])} } : TRUE

\* add_semantic_similarity_edges(clauses, similarity_threshold,
\* max_edges_per_node, edge_weight): the graph afterwards.
add_semantic_similarity_edges(g, emb, clauses, similarity_threshold, max_edges_per_node, edge_weight, tie_order) ==
    LET clause_ids == embedded_clause_ids(emb, clauses)
    IN  IF Len(clause_ids) < 2 THEN g
        ELSE add_similar_triplets(
                 g, clause_ids,
                 similar_pairs_from(emb, clause_ids, 1, similarity_threshold,
                                    max_edges_per_node, tie_order),
                 1, edge_weight)

\* add_nearby_chunk_edges(clauses): an edge from every clause to the next.
RECURSIVE add_nearby_chunk_edges_from(_, _, _)
add_nearby_chunk_edges_from(g, clauses, i) ==
    IF i >= Len(clauses) THEN g
    ELSE CHOOSE r \in
           { add_nearby_chunk_edges_from(g1, clauses, i + 1) :
               g1 \in {add_triplet(g, [subject |-> clauses[i].id,
                                       predicate |-> "NEARBY",
                                       object |-> clauses[i + 1].id,
                                       confidence |-> 10, source |-> None])} } : TRUE

add_nearby_chunk_edges(g, clauses) == add_nearby_chunk_edges_from(g, clauses, 1)

\* for clause in regulation_doc.clauses: add_clause_node(clause)
RECURSIVE add_clause_list(_, _, _)
add_clause_list(b, clauses, i) ==
    IF i > Len(clauses) THEN b
    ELSE CHOOSE r \in
           { add_clause_list(b1, clauses, i + 1) :
               b1 \in {[graph |-> add_clause_node_graph(b.graph, clauses[i]),
                        node_embeddings |->
                            add_clause_node_emb(b.node_embeddings, clauses[i])]} } : TRUE

\* Variant of high_weight: the triplet keeps the extractor's confidence.
high_weight_kept(t) == t

\* triplet.confidence = 1.0
high_weight(t) == [t EXCEPT !.confidence = 10]

\* for triplet in triplets: triplet.confidence = 1.0; add_triplet(triplet)
RECURSIVE add_triplet_list(_, _, _)
add_triplet_list(g, triplets, i) ==
    IF i > Len(triplets) THEN g
    ELSE CHOOSE r \in
           { add_triplet_list(g1, triplets, i + 1) :
               g1 \in {add_triplet(g, high_weight(triplets[i]))} } : TRUE

\* build_knowledge_graph(regulation_doc, triplets): clause nodes, then the
\* triplets at weight 1.0, then similarity edges with threshold 0.80, at
\* most 2 per node, weight 0.1.
build_knowledge_graph(b, clauses, triplets, tie_order) ==
    LET b1 == add_clause_list(b, clauses, 1)
        g2 == add_triplet_list(b1.graph, triplets, 1)
    IN  [graph |-> add_semantic_similarity_edges(g2, b1.node_embeddings, clauses,
                                                 80, 2, 1, tie_order),
         node_embeddings |-> b1.node_embeddings]

---------------------------------------------------------------------------
(* Specification of the edge builders: one call of build_knowledge_graph,  *)
(* add_nearby_chunk_edges or add_semantic_similarity_edges on a builder    *)
(* that holds the clauses of an earlier document.                          *)

MaxTriplets == 2

BuildClause(id, text, embedding) ==
    [id |-> id, text |-> text, section |-> "s1", clause_number |-> "REQ-001",
     requirement_type |-> "mandatory", severity |-> "high", embedding |-> embedding]

\* Clause lists of a document: clauses with near and with identical
\* embeddings, a clause without embedding, an id that occurs twice.
BuildClauseLists ==
    LET a1 == BuildClause("A", "t1", <<1, 0>>)
        b1 == BuildClause("B", "t2", <<1, 0>>)
        b2 == BuildClause("B", "t3", <<5, 1>>)
        c0 == BuildClause("C", "t4", <<>>)
        c1 == BuildClause("C", "t5", <<5, 4>>)
        d1 == BuildClause("D", "t6", <<1, 1>>)
    IN  {<<>>, <<a1>>, <<a1, b2>>, <<a1, b1>>, <<a1, a1>>, <<a1, c0, b2>>,
         <<a1, b2, c1>>, <<c1, b2, a1>>, <<a1, b1, c1>>, <<a1, b2, c1, d1>>}

\* Triplets as the extractor returns them (confidence 0.8 or 0.5).
BuildTriplets ==
    { [subject |-> "A", predicate |-> "REQUIRES", object |-> "B",
       confidence |-> 8, source |-> None],
      [subject |-> "A", predicate |-> "RELATED_TO", object |-> "B",
       confidence |-> 8, source |-> None],
      [subject |-> "A", predicate |-> "REQUIRES", object |-> "A",
       confidence |-> 8, source |-> None],
      [subject |-> "B", predicate |-> "REQUIRES", object |-> "X",
       confidence |-> 5, source |-> None] }

BuildTripletLists == SeqsUpTo(BuildTriplets, MaxTriplets)

\* similarity_threshold: the default 0.75 and the 0.80 of build_knowledge_graph.
Thresholds == {75, 80}

\* max_edges_per_node
MaxEdgesValues == {1, 2}

\* Builders to start from: the clauses of a document, with or without an
\* extracted edge A -> B.
StartBuilders ==
    LET withClauses == {add_clause_list(EmptyBuilder, clauses, 1) :
                           clauses \in BuildClauseLists}
    IN  withClauses
        \cup {[b EXCEPT !.graph =
                  add_triplet(b.graph, [subject |-> "A", predicate |-> "RELATED_TO",
                                        object |-> "B", confidence |-> 10,
                                        source |-> None])] : b \in withClauses}

InitBuild ==
    /\ \E b \in StartBuilders : graph = b.graph /\ node_embeddings = b.node_embeddings
    /\ disk = [p \in Paths |-> NoFile]
    /\ saved = [p \in Paths |-> NotSaved]
    /\ pre = EmptyGraph
    /\ last = NoOp
    /\ opcount = 0
    /\ NoService

\* build_knowledge_graph(regulation_doc, triplets).  The result records the
\* graph and the embedding map as they were when add_semantic_similarity_edges
\* was called.
BuildKnowledgeGraph ==
    \E clauses \in BuildClauseLists : \E triplets \in BuildTripletLists :
      \E tie_order \in TieOrders :
        LET b0 == [graph |-> graph, node_embeddings |-> node_embeddings]
            b1 == add_clause_list(b0, clauses, 1)
            b == build_knowledge_graph(b0, clauses, triplets, tie_order)
        IN  /\ opcount = 0
            /\ graph' = b.graph
            /\ node_embeddings' = b.node_embeddings
            /\ pre' = graph
            /\ last' = [op |-> "build_knowledge_graph",
                        arg |-> [clauses |-> clauses, triplets |-> triplets,
                                 similarity_threshold |-> 80, max_edges_per_node |-> 2,
                                 tie_order |-> tie_order],
                        result |-> [before_similarity |->
                                        add_triplet_list(b1.graph, triplets, 1)]]
            /\ opcount' = opcount + 1
            /\ UNCHANGED <<disk, saved>>
            /\ UNCHANGED svcvars

AddNearbyChunkEdges ==
    \E clauses \in BuildClauseLists :
        /\ opcount = 0
        /\ graph' = add_nearby_chunk_edges(graph, clauses)
        /\ pre' = graph
        /\ last' = [op |-> "add_nearby_chunk_edges", arg |-> [clauses |-> clauses],
                    result |-> None]
        /\ opcount' = opcount + 1
        /\ UNCHANGED <<node_embeddings, disk, saved>>
        /\ UNCHANGED svcvars

\* add_semantic_similarity_edges(clauses, similarity_threshold,
\* max_edges_per_node) with the default edge_weight 0.1.
AddSemanticSimilarityEdges ==
    \E clauses \in BuildClauseLists : \E similarity_threshold \in Thresholds :
      \E max_edges_per_node \in MaxEdgesValues : \E tie_order \in TieOrders :
        /\ opcount = 0
        /\ graph' = add_semantic_similarity_edges(graph, node_embeddings, clauses,
                                                  similarity_threshold,
                                                  max_edges_per_node, 1, tie_order)
        /\ pre' = graph
        /\ last' = [op |-> "add_semantic_similarity_edges",
                    arg |-> [clauses |-> clauses,
                             similarity_threshold |-> similarity_threshold,
                             max_edges_per_node |-> max_edges_per_node,
                             tie_order |-> tie_order],
                    result |-> [before_similarity |-> graph]]
        /\ opcount' = opcount + 1
        /\ UNCHANGED <<node_embeddings, disk, saved>>
        /\ UNCHANGED svcvars

NextBuild ==
    \/ BuildKnowledgeGraph
    \/ AddNearbyChunkEdges
    \/ AddSemanticSimilarityEdges

SpecBuild == InitBuild /\ [][NextBuild]_vars

---------------------------------------------------------------------------
(* The service registry of the API routes (routes/regulations.py).  A       *)
(* Python str is modelled as the sequence of its characters.                *)

\* str.upper() on the letters that occur.
upper(s) ==
    [i \in 1..Len(s) |->
        CASE s[i] = "a" -> "A" [] s[i] = "c" -> "C" [] s[i] = "e" -> "E"
          [] s[i] = "j" -> "J" [] s[i] = "n" -> "N" [] s[i] = "p" -> "P"
          [] s[i] = "s" -> "S" [] s[i] = "u" -> "U" [] OTHER -> s[i]]

\* str.lower() on the letters that occur.
lower(s) ==
    [i \in 1..Len(s) |->
        CASE s[i] = "A" -> "a" [] s[i] = "C" -> "c" [] s[i] = "E" -> "e"
          [] s[i] = "J" -> "j" [] s[i] = "N" -> "n" [] s[i] = "P" -> "p"
          [] s[i] = "S" -> "s" [] s[i] = "U" -> "u" [] OTHER -> s[i]]

\* country_map, as the set of its (key, value) pairs.
country_map ==
    { <<(<<"U", "S", "A">>), (<<"u", "s", "a">>)>>,
      <<(<<"E", "U">>), (<<"e", "u">>)>>,
      <<(<<"J", "A", "P", "A", "N">>), (<<"j", "a", "p", "a", "n">>)>> }

\* Variant of the directory lookup that takes the country string as given.
country_dir_as_given(country) == country

\* country_map.get(country.upper(), country.lower())
country_dir_of(country) ==
    IF \E kv \in country_map : kv[1] = upper(country)
    THEN (CHOOSE kv \in country_map : kv[1] = upper(country))[2]
    ELSE lower(country)

\* The country strings that requests carry.
Countries ==
    { <<"U", "S", "A">>, <<"u", "s", "a">>, <<"U", "s", "a">>,
      <<"E", "U">>, <<"e", "u">>,
      <<"C", "A", "N">>, <<"c", "a", "n">> }

MaxCalls == 3

\* RegulationService(country=country_dir): the instance is identified by
\* its serial number; self.country = country.lower(); one snapshot is loaded
\* when the graph directory holds a *.json file (lines 56-63).
RegulationService(serial, country, existing_graphs) ==
    [serial |-> serial, country |-> lower(country), loaded |-> existing_graphs]

Created == SelectSeq(history, LAMBDA e : e.op = "RegulationService")

InitService ==
    /\ graph = EmptyGraph
    /\ node_embeddings = EmptyDict
    /\ disk = [p \in Paths |-> NoFile]
    /\ saved = [p \in Paths |-> NotSaved]
    /\ pre = EmptyGraph
    /\ last = NoOp
    /\ opcount = 0
    /\ regulation_services = EmptyDict
    /\ collection = EmptyDict
    /\ tasks = EmptyDict
    /\ temp = EmptyDict
    /\ history = <<>>

\* get_regulation_service(country): runs without an await, so as one step.
\* existing_graphs is read by __init__ only, so it is drawn for a fresh
\* country_dir only.
GetRegulationService ==
    \E country \in Countries, existing_graphs \in BOOLEAN :
        LET country_dir == country_dir_of(country)
            fresh == country_dir \notin DOMAIN regulation_services
            service == IF fresh
                       THEN RegulationService(Len(Created) + 1, country_dir,
                                              existing_graphs)
                       ELSE regulation_services[country_dir]
        IN  /\ opcount < MaxCalls
            /\ fresh \/ ~existing_graphs
            /\ regulation_services' =
                 IF fresh
                 THEN DictUpdate(regulation_services,
                                 [d \in {country_dir} |-> service])
                 ELSE regulation_services
            /\ history' =
                 (IF fresh
                  THEN Append(history, [op |-> "RegulationService",
                                        arg |-> country_dir, result |-> service])
                  ELSE history)
                 \o << [op |-> "get_regulation_service", arg |-> country,
                        result |-> service] >>
            /\ opcount' = opcount + 1
            /\ UNCHANGED <<graph, node_embeddings, disk, saved, pre, last>>
            /\ UNCHANGED <<collection, tasks, temp>>

NextService == GetRegulationService

SpecService == InitService /\ [][NextService]_vars

---------------------------------------------------------------------------
(* RegulationService of one jurisdiction (country_dir "usa"): ingestion,    *)
(* retrieval and restart.  graph and node_embeddings are the service's      *)
(* graph_builder, disk its graph directory, collection its vector index     *)
(* (id -> metadata; it lives in the chroma directory and outlives the       *)
(* process), tasks the ingest_regulation coroutine in flight.  A clause id  *)
(* f"{authority}-CHUNK{chunk_id}-{req id}" is the tuple of its three parts, *)
(* a snapshot path f"{authority}-{version}.json" the tuple of its two.      *)

MaxRequests == 3

\* The country strings that get_regulation_service maps to this service.
JurisdictionCountries == {c \in Countries : country_dir_of(c) = <<"u", "s", "a">>}

\* What a caller hands to ingest_regulation, with the requirements the
\* agent extracts from the (single) chunk of the PDF.  process_regulations
\* passes version "2024" and saves once more under the PDF's stem.
Documents ==
    { [caller |-> "upload_regulation", authority |-> "FDA", version |-> "2024",
       file_id |-> "2024",
       requirements_data |->
           << [id |-> "REQ-001", text |-> "t1", topic |-> "s1",
               requirement_type |-> "mandatory", severity |-> "high"],
              [id |-> "REQ-002", text |-> "t2", topic |-> "s1",
               requirement_type |-> None, severity |-> None] >>],
      [caller |-> "upload_regulation", authority |-> "FDA", version |-> "2025",
       file_id |-> "2025",
       requirements_data |->
           << [id |-> "REQ-001", text |-> "t3", topic |-> "s2",
               requirement_type |-> "recommended", severity |-> "low"] >>],
      [caller |-> "process_regulations", authority |-> "FDA", version |-> "2024",
       file_id |-> "part11",
       requirements_data |->
           << [id |-> "REQ-001", text |-> "t3", topic |-> "s2",
               requirement_type |-> "recommended", severity |-> "low"] >>] }

SnapshotPaths == {<<d.authority, d.version>> : d \in Documents}
                   \cup {<<d.authority, d.file_id>> : d \in Documents}

\* _parse_chunk: the clauses of chunk chunk_id, ids built at line 254.
parse_chunk(authority, chunk_id, requirements_data) ==
    [i \in 1..Len(requirements_data) |->
        [id |-> <<authority, chunk_id, requirements_data[i].id>>,
         text |-> requirements_data[i].text,
         section |-> requirements_data[i].topic,
         clause_number |-> requirements_data[i].id,
         requirement_type |-> requirements_data[i].requirement_type,
         severity |-> requirements_data[i].severity]]

\* embed_clauses: the embedding is a function of the clause's text.
embed_clauses(clauses) ==
    [i \in 1..Len(clauses) |->
        [id |-> clauses[i].id, text |-> clauses[i].text,
         section |-> clauses[i].section,
         clause_number |-> clauses[i].clause_number,
         requirement_type |-> clauses[i].requirement_type,
         severity |-> clauses[i].severity,
         embedding |-> CASE clauses[i].text = "t1" -> <<1, 0>>
                         [] clauses[i].text = "t2" -> <<4, 3>>
                         [] OTHER -> <<0, 1>>]]

\* store_in_chromadb: collection.add of all clauses in one batch, with the
\* country string of the document as metadata.  An id the index holds
\* already keeps its first entry (chromadb.PersistentClient logs such an
\* id and skips it).
store_in_chromadb(coll, country, authority, clauses) ==
    [id \in DOMAIN coll \cup {clauses[i].id : i \in 1..Len(clauses)} |->
        IF id \in DOMAIN coll THEN coll[id]
        ELSE [country |-> country, authority |-> authority]]

\* collection.query(where={"country": country}, n_results=5): the ids whose
\* metadata carries exactly that country string.
vector_search(coll, country) == {id \in DOMAIN coll : coll[id].country = country}

\* The relationship lists the agent may return for a list of clauses.
TripletChoices(clauses) ==
    { <<>>,
      << [subject |-> clauses[1].id, predicate |-> "RELATED_TO",
          object |-> clauses[Len(clauses)].id, confidence |-> 8, source |-> None] >> }

Ingesting == "ingest" \in DOMAIN tasks

InitIngest ==
    /\ graph = EmptyGraph
    /\ node_embeddings = EmptyDict
    /\ disk = [p \in SnapshotPaths |-> NoFile]
    /\ saved = [p \in SnapshotPaths |-> NotSaved]
    /\ pre = EmptyGraph
    /\ last = NoOp
    /\ opcount = 0
    /\ regulation_services = EmptyDict
    /\ collection = EmptyDict
    /\ tasks = EmptyDict
    /\ temp = EmptyDict
    /\ history = <<>>

\* ingest_regulation up to its first await (line 574): the text is read
\* and the agent is asked for the requirements.
IngestStart ==
    \E doc \in Documents, country \in JurisdictionCountries :
        /\ ~Ingesting
        /\ opcount < MaxRequests
        /\ tasks' = [t \in {"ingest"} |->
                        [pc |-> "parse_regulation_with_agent", doc |-> doc,
                         country |-> country, clauses |-> <<>>]]
        /\ pre' = graph
        /\ last' = [op |-> "ingest_regulation", arg |-> doc, result |-> "started"]
        /\ opcount' = opcount + 1
        /\ UNCHANGED <<graph, node_embeddings, disk, saved>>
        /\ UNCHANGED <<regulation_services, collection, temp, history>>

\* Lines 574-599: the requirements arrive, are embedded and stored in the
\* vector index; the agent is asked for the relationships.
IngestStore ==
    /\ Ingesting
    /\ tasks["ingest"].pc = "parse_regulation_with_agent"
    /\ LET t == tasks["ingest"]
           clauses == embed_clauses(
                          parse_chunk(t.doc.authority, 0, t.doc.requirements_data))
       IN  /\ collection' = store_in_chromadb(collection, t.country,
                                              t.doc.authority, clauses)
           /\ tasks' = [x \in {"ingest"} |->
                           [t EXCEPT !.pc = "extract_triplets_with_agent",
                                     !.clauses = clauses]]
           /\ last' = [op |-> "ingest_regulation", arg |-> t.doc, result |-> "stored"]
    /\ pre' = graph
    /\ UNCHANGED <<graph, node_embeddings, disk, saved, opcount>>
    /\ UNCHANGED <<regulation_services, temp, history>>

\* Lines 599-616: the relationships arrive, the graph is built and saved
\* under authority-version; process_regulations saves it once more under
\* authority-file_id (process_regulations.py:130-131).
IngestBuildSave ==
    /\ Ingesting
    /\ tasks["ingest"].pc = "extract_triplets_with_agent"
    /\ LET t == tasks["ingest"]
       IN  \E triplets \in TripletChoices(t.clauses), tie_order \in TieOrders :
             LET b == build_knowledge_graph(
                          [graph |-> graph, node_embeddings |-> node_embeddings],
                          t.clauses, triplets, tie_order)
                 files == save_files(b.graph, b.node_embeddings)
                 snapshot == [valid |-> TRUE, graph |-> b.graph,
                              node_embeddings |-> b.node_embeddings]
                 paths == IF t.doc.caller = "process_regulations"
                          THEN << <<t.doc.authority, t.doc.version>>,
                                  <<t.doc.authority, t.doc.file_id>> >>
                          ELSE << <<t.doc.authority, t.doc.version>> >>
             IN  /\ graph' = b.graph
                 /\ node_embeddings' = b.node_embeddings
                 /\ disk' = [p \in SnapshotPaths |->
                                IF p \in SeqToSet(paths) THEN files ELSE disk[p]]
                 /\ saved' = [p \in SnapshotPaths |->
                                IF p \in SeqToSet(paths) THEN snapshot ELSE saved[p]]
                 /\ history' = history \o
                        [i \in 1..Len(paths) |->
                            [op |-> "save", arg |-> paths[i], result |-> b.graph]]
                 /\ last' = [op |-> "ingest_regulation", arg |-> t.doc,
                             result |-> "complete"]
    /\ tasks' = EmptyDict
    /\ pre' = graph
    /\ UNCHANGED <<opcount, regulation_services, collection, temp>>

\* ingest_regulation ends with an exception: the coroutine is cancelled at
\* one of its awaits (asyncio.CancelledError passes the "except Exception"
\* handlers of the agent helpers), or save cannot write (OSError at line
\* 256 of graph_builder.py) after the graph was built.
IngestFail ==
    /\ Ingesting
    /\ \E at \in {"await", "save"} :
        LET t == tasks["ingest"]
        IN  /\ at = "save" => t.pc = "extract_triplets_with_agent"
            /\ IF at = "save"
               THEN \E triplets \in TripletChoices(t.clauses), tie_order \in TieOrders :
                      LET b == build_knowledge_graph(
                                   [graph |-> graph, node_embeddings |-> node_embeddings],
                                   t.clauses, triplets, tie_order)
                      IN  /\ graph' = b.graph
                          /\ node_embeddings' = b.node_embeddings
               ELSE UNCHANGED <<graph, node_embeddings>>
            /\ last' = [op |-> "ingest_regulation", arg |-> t.doc, result |-> "failed"]
    /\ tasks' = EmptyDict
    /\ pre' = graph
    /\ UNCHANGED <<disk, saved, opcount>>
    /\ UNCHANGED <<regulation_services, collection, temp, history>>

\* retrieve_regulations: retrieve_with_hipporag is a plain function, it
\* runs as one step of the event loop, also while an ingestion awaits.
\* The vector search returns the matching ids in the order of similarity.
Retrieve ==
    \E country \in JurisdictionCountries :
      \E seed_node_ids \in SeqsUpTo(vector_search(collection, country), NResults) :
        /\ opcount < MaxRequests
        /\ SeqToSet(seed_node_ids) = vector_search(collection, country)
        /\ Len(seed_node_ids) = Cardinality(vector_search(collection, country))
        /\ last' = [op |-> "retrieve_with_hipporag",
                    arg |-> [country |-> country, seed_node_ids |-> seed_node_ids],
                    result |-> retrieve_with_hipporag(graph, seed_node_ids,
                                                      DefaultTopK, FALSE)]
        /\ pre' = graph
        /\ opcount' = opcount + 1
        /\ UNCHANGED <<graph, node_embeddings, disk, saved>>
        /\ UNCHANGED svcvars

\* The process is restarted while no ingestion runs: a new
\* RegulationService builds an empty graph_builder and loads
\* existing_graphs[0]; glob yields the files in the directory's order,
\* which is any order.
Restart ==
    /\ ~Ingesting
    /\ opcount < MaxRequests
    /\ LET existing_graphs == {p \in SnapshotPaths : disk[p].topology_exists}
       IN  IF existing_graphs = {}
           THEN /\ graph' = EmptyGraph
                /\ node_embeddings' = EmptyDict
                /\ last' = [op |-> "restart", arg |-> None, result |-> None]
           ELSE \E graph_path \in existing_graphs :
                /\ graph' = load_graph(disk[graph_path])
                /\ node_embeddings' = load_embeddings(EmptyDict, disk[graph_path])
                /\ last' = [op |-> "restart", arg |-> graph_path, result |-> None]
    /\ pre' = graph
    /\ opcount' = opcount + 1
    /\ UNCHANGED <<disk, saved>>
    /\ UNCHANGED svcvars

NextIngest ==
    \/ IngestStart
    \/ IngestStore
    \/ IngestBuildSave
    \/ IngestFail
    \/ Retrieve
    \/ Restart

SpecIngest == InitIngest /\ [][NextIngest]_vars

---------------------------------------------------------------------------
(* The temp file of the upload routes.  Two requests carry a file of the    *)
(* same name, so both use the path ./data/temp/<filename>.  temp is that    *)
(* path: the inode linked at it (0: no file) and the bytes of every inode   *)
(* created so far; a request's open file keeps its inode after the path is  *)
(* unlinked.  tasks holds the position of each request handler.             *)

\* The requests: the route and the bytes of the uploaded file.
UploadRequests ==
    [handler : {"upload_regulation", "check_pdf_compliance",
                "fix_pdf_violations", "convert_pdf_to_markdown"},
     content : {<<1, 2>>, <<3>>}]

InitTemp ==
    /\ graph = EmptyGraph
    /\ node_embeddings = EmptyDict
    /\ disk = [p \in Paths |-> NoFile]
    /\ saved = [p \in Paths |-> NotSaved]
    /\ pre = EmptyGraph
    /\ last = NoOp
    /\ opcount = 0
    /\ regulation_services = EmptyDict
    /\ collection = EmptyDict
    /\ temp = [linked |-> 0, inodes |-> <<>>]
    /\ \E a \in UploadRequests, b \in UploadRequests :
          tasks = [r \in {1, 2} |->
                      [handler |-> IF r = 1 THEN a.handler ELSE b.handler,
                       content |-> IF r = 1 THEN a.content ELSE b.content,
                       pc |-> "open", fd |-> 0,
                       read |-> [ok |-> FALSE, bytes |-> <<>>]]]
    /\ history = <<>>

\* open(temp_path, "wb"): creates the file, or empties the one that is
\* there; the handler then awaits file.read() with the file open.
OpenTemp(r) ==
    /\ tasks[r].pc = "open"
    /\ temp' = IF temp.linked = 0
               THEN [linked |-> Len(temp.inodes) + 1,
                     inodes |-> Append(temp.inodes, <<>>)]
               ELSE [temp EXCEPT !.inodes[temp.linked] = <<>>]
    /\ tasks' = [tasks EXCEPT ![r].pc = "await file.read()",
                              ![r].fd = IF temp.linked = 0
                                        THEN Len(temp.inodes) + 1 ELSE temp.linked]
    /\ UNCHANGED buildervars
    /\ UNCHANGED <<regulation_services, collection, history>>

\* f.write(content) from offset 0 of the open file and close; then, with no
\* await in between, the PDF is read back through temp_path
\* (extract_text_from_pdf, pdf_to_markdown).  A missing file raises, and
\* the handler's finally clause runs at once; convert_pdf_to_markdown has
\* no await after the read either, so it removes the file in the same step.
WriteAndRead(r) ==
    /\ tasks[r].pc = "await file.read()"
    /\ LET t == tasks[r]
           old == temp.inodes[t.fd]
           written == t.content \o SubSeq(old, Len(t.content) + 1, Len(old))
           inodes == [temp.inodes EXCEPT ![t.fd] = written]
           found == temp.linked # 0
       IN  /\ tasks' = [tasks EXCEPT
                 ![r].read = IF found THEN [ok |-> TRUE, bytes |-> inodes[temp.linked]]
                             ELSE [ok |-> FALSE, bytes |-> <<>>],
                 ![r].pc = IF found /\ t.handler # "convert_pdf_to_markdown"
                           THEN "processing" ELSE "done"]
           /\ temp' = [linked |-> IF found /\ t.handler # "convert_pdf_to_markdown"
                                  THEN temp.linked ELSE 0,
                       inodes |-> inodes]
    /\ UNCHANGED buildervars
    /\ UNCHANGED <<regulation_services, collection, history>>

\* The handler's awaits are over, its finally clause runs:
\* if os.path.exists(temp_path): os.remove(temp_path).
Cleanup(r) ==
    /\ tasks[r].pc = "processing"
    /\ temp' = [temp EXCEPT !.linked = 0]
    /\ tasks' = [tasks EXCEPT ![r].pc = "done"]
    /\ UNCHANGED buildervars
    /\ UNCHANGED <<regulation_services, collection, history>>

NextTemp ==
    \E r \in {1, 2} :
        \/ OpenTemp(r)
        \/ WriteAndRead(r)
        \/ Cleanup(r)

SpecTemp == InitTemp /\ [][NextTemp]_vars

---------------------------------------------------------------------------
(* LavaAgent.call: the retry loop around the HTTP request.  Two calls are   *)
(* in flight (the service gathers the calls of a batch); tasks holds, for   *)
(* each, the loop variable attempt, the responses received, the delays      *)
(* slept and how the call ended.  A response is its status code; 0 stands   *)
(* for no response (client.post raises httpx.TimeoutException or            *)
(* httpx.ConnectError, which the except clause at line 103 does not catch). *)

max_retries == 5
base_delay == 2

\* Variant of the retry test that also retries after the last attempt.
may_retry_always(attempt) == TRUE

\* if attempt < max_retries - 1
may_retry(attempt) == attempt < max_retries - 1

InitAgent ==
    /\ graph = EmptyGraph
    /\ node_embeddings = EmptyDict
    /\ disk = [p \in Paths |-> NoFile]
    /\ saved = [p \in Paths |-> NotSaved]
    /\ pre = EmptyGraph
    /\ last = NoOp
    /\ opcount = 0
    /\ regulation_services = EmptyDict
    /\ collection = EmptyDict
    /\ temp = EmptyDict
    /\ tasks = [c \in {1, 2} |->
                   [pc |-> "client.post", attempt |-> 0, statuses |-> <<>>,
                    slept |-> <<>>, outcome |-> "pending"]]
    /\ history = <<>>

\* The request of this attempt ends (timeout=60.0 bounds it): 200 returns
\* response.json(); 429 with attempts left sleeps base_delay * 2 ** attempt;
\* everything else is raised.
Post(c) ==
    /\ tasks[c].pc = "client.post"
    /\ \E status \in {200, 429, 500, 0} :
        LET t == [tasks[c] EXCEPT !.statuses = Append(@, status)]
        IN  tasks' = [tasks EXCEPT ![c] =
                IF status = 200
                THEN [t EXCEPT !.pc = "done", !.outcome = "response.json()"]
                ELSE IF status = 429 /\ may_retry(t.attempt)
                THEN [t EXCEPT !.pc = "asyncio.sleep",
                               !.slept = Append(@, base_delay * 2 ^ t.attempt)]
                ELSE [t EXCEPT !.pc = "done", !.outcome = "raise"]]
    /\ UNCHANGED buildervars
    /\ UNCHANGED <<regulation_services, collection, temp, history>>

\* The sleep is over: continue with the next attempt of range(max_retries);
\* when the range is exhausted the function ends without a return
\* statement, which returns None.
Wake(c) ==
    /\ tasks[c].pc = "asyncio.sleep"
    /\ tasks' = [tasks EXCEPT ![c] =
            IF tasks[c].attempt + 1 < max_retries
            THEN [@ EXCEPT !.pc = "client.post", !.attempt = @ + 1]
            ELSE [@ EXCEPT !.pc = "done", !.attempt = @ + 1, !.outcome = "None"]]
    /\ UNCHANGED buildervars
    /\ UNCHANGED <<regulation_services, collection, temp, history>>

NextAgent ==
    \E c \in {1, 2} :
        \/ Post(c)
        \/ Wake(c)

\* Every request ends and every sleep ends, so a call that can take a step
\* takes it.
SpecAgent ==
    /\ InitAgent
    /\ [][NextAgent]_vars
    /\ \A c \in {1, 2} : WF_vars(Post(c)) /\ WF_vars(Wake(c))

---------------------------------------------------------------------------
(* check_pdf_compliance: the checks of the chunks and the overall verdict.  *)
(* A result of check_protocol_compliance is a dict; raised says that the    *)
(* call raised instead.                                                     *)

MaxChunks == 3

\* How the check of one chunk can end: all related regulations met, one
\* violated, none related, the error result of check_protocol_compliance
\* (lines 735-740) or of the compliance agent, or an exception.
ChunkOutcomes ==
    { [raised |-> FALSE,
       result |-> [total_regulations_checked |-> 2, compliant_count |-> 2,
                   non_compliant_count |-> 0, status |-> "COMPLIANT"]],
      [raised |-> FALSE,
       result |-> [total_regulations_checked |-> 2, compliant_count |-> 1,
                   non_compliant_count |-> 1, status |-> "NON_COMPLIANT"]],
      [raised |-> FALSE,
       result |-> [total_regulations_checked |-> 0, compliant_count |-> 0,
                   non_compliant_count |-> 0, status |-> "COMPLIANT"]],
      [raised |-> FALSE,
       result |-> [error |-> "No relevant regulations found", status |-> "ERROR"]],
      [raised |-> TRUE, result |-> EmptyDict] }

\* process_chunk: the PDFChunkResult of a chunk, from the result's fields
\* with their defaults, or the ERROR result of the except clause.
process_chunk(outcome) ==
    IF outcome.raised
    THEN [total_regulations_checked |-> 0, compliant_count |-> 0,
          non_compliant_count |-> 0, status |-> "ERROR"]
    ELSE [total_regulations_checked |->
              DictGet(outcome.result, "total_regulations_checked", 0),
          compliant_count |-> DictGet(outcome.result, "compliant_count", 0),
          non_compliant_count |-> DictGet(outcome.result, "non_compliant_count", 0),
          status |-> DictGet(outcome.result, "status", "ERROR")]

InitPdf ==
    /\ graph = EmptyGraph
    /\ node_embeddings = EmptyDict
    /\ disk = [p \in Paths |-> NoFile]
    /\ saved = [p \in Paths |-> NotSaved]
    /\ pre = EmptyGraph
    /\ last = NoOp
    /\ opcount = 0
    /\ NoService

\* check_pdf_compliance from asyncio.gather on: the chunk results are
\* summed and the verdict is taken from total_non_compliant alone.
CheckPdfCompliance ==
    \E outcomes \in SeqsUpTo(ChunkOutcomes, MaxChunks) :
        LET chunk_results == [i \in 1..Len(outcomes) |-> process_chunk(outcomes[i])]
            total_non_compliant ==
                SumOver([i \in 1..Len(outcomes) |-> chunk_results[i].non_compliant_count],
                        1..Len(outcomes))
        IN  /\ opcount = 0
            /\ Len(outcomes) >= 1
            /\ last' = [op |-> "check_pdf_compliance", arg |-> outcomes,
                        result |-> [overall_status |->
                                        IF total_non_compliant = 0
                                        THEN "COMPLIANT" ELSE "NON_COMPLIANT",
                                    total_violations |-> total_non_compliant,
                                    chunk_results |-> chunk_results]]
            /\ opcount' = opcount + 1
            /\ UNCHANGED <<graph, node_embeddings, disk, saved, pre>>
            /\ UNCHANGED svcvars

NextPdf == CheckPdfCompliance

SpecPdf == InitPdf /\ [][NextPdf]_vars

---------------------------------------------------------------------------
(* Properties of the graph store *)

\* The edge records the graph holds from s to o.
EdgesBetween(g, s, o) == IF <<s, o>> \in DOMAIN g.adj THEN {g.adj[<<s, o>>]} ELSE {}

LastIs(op) == last.op = op

\* C1: save(path) followed by load(path) into a fresh builder gives the same
\* node ids with the same attributes, the same edges with the same relation
\* and weight, and the same per-node embeddings as the saved builder.
C1_RoundTrip ==
    (LastIs("load") /\ last.arg.fresh) =>
        LET s == saved[last.arg.path]
        IN  /\ s.valid
            /\ graph.nodes = s.graph.nodes
            /\ graph.attr = s.graph.attr
            /\ DOMAIN graph.adj = DOMAIN s.graph.adj
            /\ \A e \in DOMAIN graph.adj :
                   /\ graph.adj[e].relation = s.graph.adj[e].relation
                   /\ graph.adj[e].confidence = s.graph.adj[e].confidence
            /\ node_embeddings = s.node_embeddings

\* A fresh builder has loaded a snapshot holding a clause node, a placeholder
\* node, an edge and an embedding.
C1_Witness ==
    /\ LastIs("load") /\ last.arg.fresh
    /\ number_of_edges(graph) >= 1
    /\ node_embeddings # EmptyDict
    /\ \E n \in NodeSet(graph) : graph.attr[n].type = "clause"
    /\ \E n \in NodeSet(graph) : graph.attr[n].type = "unknown"

\* C2: after add_triplet(s, p1, o) and then add_triplet(s, p2, o) with
\* p1 # p2 the graph holds two distinct edges from s to o, one with relation
\* p1 and its weight and one with relation p2 and its weight.
C2_ParallelEdgesKept ==
    (/\ LastIs("add_triplet")
     /\ <<last.arg.subject, last.arg.object>> \in DOMAIN pre.adj
     /\ pre.adj[<<last.arg.subject, last.arg.object>>].relation # last.arg.predicate) =>
        LET old == pre.adj[<<last.arg.subject, last.arg.object>>]
            E == EdgesBetween(graph, last.arg.subject, last.arg.object)
        IN  \E e1 \in E : \E e2 \in E :
               /\ e1 # e2
               /\ e1.relation = old.relation /\ e1.confidence = old.confidence
               /\ e2.relation = last.arg.predicate
               /\ e2.confidence = last.arg.confidence

\* C3: adding a triplet whose subject, predicate and object equal those of
\* an edge already in the graph stores a further edge: the edge count grows
\* by one and the subject's outgoing weight grows by the added weight.
C3_DuplicateAppended ==
    (/\ LastIs("add_triplet")
     /\ <<last.arg.subject, last.arg.object>> \in DOMAIN pre.adj
     /\ pre.adj[<<last.arg.subject, last.arg.object>>].relation = last.arg.predicate) =>
        /\ number_of_edges(graph) = number_of_edges(pre) + 1
        /\ OutWeight(graph, last.arg.subject)
              = OutWeight(pre, last.arg.subject) + last.arg.confidence

\* C4: both endpoints of every edge are nodes; add_triplet creates a missing
\* endpoint as a node of type "unknown" and leaves the attributes of an
\* endpoint that already exists unchanged.
C4_EndpointsExist ==
    /\ \A e \in DOMAIN graph.adj : has_node(graph, e[1]) /\ has_node(graph, e[2])
    /\ LastIs("add_triplet") =>
          \A n \in {last.arg.subject, last.arg.object} :
              /\ has_node(graph, n)
              /\ graph.attr[n] = IF has_node(pre, n) THEN pre.attr[n]
                                 ELSE [type |-> "unknown"]

\* add_triplet has run with a clause node as subject and an object that was
\* not a node before.
C4_Witness ==
    /\ LastIs("add_triplet")
    /\ has_node(pre, last.arg.subject)
    /\ pre.attr[last.arg.subject].type = "clause"
    /\ ~has_node(pre, last.arg.object)
    /\ graph.attr[last.arg.object].type = "unknown"

---------------------------------------------------------------------------
(* Properties of personalized_pagerank *)

PprCalled == LastIs("personalized_pagerank")

SumScores(scores) == SumOver(scores, DOMAIN scores)

\* 1.0 "within floating tolerance": the rounding of the fixed-point scores
\* stays far below this, the constants of the fallback far above.
SumTolerance == Scale \div (10 ^ 4)

SumsToOne(scores) == Abs(SumScores(scores) - Scale) <= SumTolerance

\* The seed list is not empty and all its ids are nodes of the graph.
SeedsAllValid ==
    /\ last.arg.seed_nodes # <<>>
    /\ \A n \in SeqToSet(last.arg.seed_nodes) : has_node(graph, n)

\* C5 as stated: for a non-empty seed list of graph nodes, every mapping the
\* function returns has a score >= 0 for every node and sums to 1.0.
C5_SumOneOnEveryReturn ==
    (PprCalled /\ SeedsAllValid /\ last.result.status = "return") =>
        /\ DOMAIN last.result.scores = NodeSet(graph)
        /\ \A n \in NodeSet(graph) : last.result.scores[n] >= 0
        /\ SumsToOne(last.result.scores)

\* C5 as amended: every returned mapping has a score >= 0 for every node, and
\* it sums to 1.0 when it is the result of nx.pagerank (not the fallback
\* after a failed computation).
C5_SumOneOnSuccess ==
    (PprCalled /\ SeedsAllValid /\ last.result.status = "return") =>
        /\ DOMAIN last.result.scores = NodeSet(graph)
        /\ \A n \in NodeSet(graph) : last.result.scores[n] >= 0
        /\ last.result.path = "success" => SumsToOne(last.result.scores)

\* nx.pagerank has converged on a graph with an edge, a dangling node and
\* a node that is no seed.
C5_Witness ==
    /\ PprCalled /\ SeedsAllValid
    /\ last.result.path = "success"
    /\ number_of_edges(graph) >= 1
    /\ \E n \in NodeSet(graph) : RowSum(graph, n) = 0
    /\ \E n \in NodeSet(graph) : n \notin SeqToSet(last.arg.seed_nodes)

\* C6: with an empty seed list the result assigns 0.0 to every node of the
\* graph and to nothing else.
C6_EmptySeedsAllZero ==
    (PprCalled /\ last.arg.seed_nodes = <<>>) =>
        /\ last.result.status = "return"
        /\ DOMAIN last.result.scores = NodeSet(graph)
        /\ \A n \in NodeSet(graph) : last.result.scores[n] = 0

C6_Witness ==
    /\ PprCalled /\ last.arg.seed_nodes = <<>>
    /\ number_of_nodes(graph) >= 2

\* C7: on a graph without nodes the result is the empty mapping for every
\* seed list, and nothing is raised.
C7_EmptyGraphEmptyMapping ==
    (PprCalled /\ number_of_nodes(graph) = 0) =>
        /\ last.result.status = "return"
        /\ last.result.scores = EmptyDict

C7_Witness ==
    /\ PprCalled /\ number_of_nodes(graph) = 0
    /\ last.arg.seed_nodes # <<>>

\* No id of the (non-empty) seed list is a node of the (non-empty) graph.
NoSeedValid ==
    /\ last.arg.seed_nodes # <<>>
    /\ number_of_nodes(graph) >= 1
    /\ \A n \in SeqToSet(last.arg.seed_nodes) : ~has_node(graph, n)

\* C8: when no seed id is a node of the graph, every node gets the score
\* 1/N, a uniform distribution summing to 1.0.
C8_NoValidSeedUniform ==
    (PprCalled /\ NoSeedValid) =>
        /\ last.result.status = "return"
        /\ DOMAIN last.result.scores = NodeSet(graph)
        /\ \A n \in NodeSet(graph) :
               last.result.scores[n] = Scale \div number_of_nodes(graph)
        /\ SumsToOne(last.result.scores)

C8_Witness ==
    /\ PprCalled /\ NoSeedValid
    /\ number_of_nodes(graph) = 3

PresentSeeds == SelectSeq(last.arg.seed_nodes, LAMBDA n : n \in NodeSet(graph))

\* C11: for a seed list with at least one id present in the graph, the
\* outcome equals the outcome of the call with only the present ids: absent
\* ids change nothing.
C11_AbsentSeedsDropped ==
    (PprCalled /\ PresentSeeds # <<>> /\ PresentSeeds # last.arg.seed_nodes) =>
        last.result = personalized_pagerank(graph, PresentSeeds, last.arg.max_iter,
                                            last.arg.pagerank_error)

\* A list with a present and an absent id has been ranked by nx.pagerank on
\* a graph with an edge.
C11_Witness ==
    /\ PprCalled
    /\ PresentSeeds # <<>> /\ PresentSeeds # last.arg.seed_nodes
    /\ last.result.path = "success"
    /\ number_of_edges(graph) >= 1

\* The nodes of g that no edge points to.
Unreferenced(g) == {v \in NodeSet(g) : ~\E e \in DOMAIN g.adj : e[2] = v}

\* Seed A alone, default max_iter, nx.pagerank not failing otherwise.
SeedAOnly ==
    /\ PprCalled
    /\ SeqToSet(last.arg.seed_nodes) = {"A"}
    /\ last.arg.max_iter = DefaultMaxIter
    /\ ~last.arg.pagerank_error

\* C12: with seed A, an edge A -> b and a lighter edge A -> c (b and c having
\* no other edges), score(b) > score(c) > score(v) for every node v other
\* than the seed that no edge points to; weights 1.0 and 0.1 are one case.
C12_HeavierEdgeDominates ==
    SeedAOnly =>
        /\ last.result.path = "success"
        /\ \A b \in {"B", "C"} : \A c \in {"B", "C"} :
              graph.adj[<<"A", b>>].confidence > graph.adj[<<"A", c>>].confidence =>
                  /\ last.result.scores[b] > last.result.scores[c]
                  /\ \A v \in Unreferenced(graph) \ {"A"} :
                         last.result.scores[c] > last.result.scores[v]

\* The scenario itself: A -> B of weight 1.0, A -> C of weight 0.1, and a
\* clause node D that no edge points to.
C12_Witness ==
    /\ SeedAOnly
    /\ last.result.path = "success"
    /\ graph.adj[<<"A", "B">>].confidence = 10
    /\ graph.adj[<<"A", "C">>].confidence = 1
    /\ "D" \in Unreferenced(graph)

---------------------------------------------------------------------------
(* Properties of retrieve_with_hipporag *)

RetrieveCalled == LastIs("retrieve_with_hipporag")

\* The call went through PageRank and got scores back.
Ranked ==
    /\ RetrieveCalled
    /\ last.result.status = "return"
    /\ last.result.path \in {"success", "fallback"}

ClauseNodes(g) == {n \in NodeSet(g) : g.attr[n].type = "clause"}

Min(a, b) == IF a < b THEN a ELSE b

\* Ascending order of node ids.
IdRank == [n \in {"A", "B", "C", "D", "E", "Z"} |->
             CHOOSE k \in 1..6 : <<"A", "B", "C", "D", "E", "Z">>[k] = n]

\* C13: for top_k >= 0 the call returns at most top_k results, and every
\* result is a node whose stored type is "clause".
C13_AtMostTopKClauses ==
    (RetrieveCalled /\ last.arg.top_k >= 0 /\ last.result.status = "return") =>
        /\ Len(last.result.results) <= last.arg.top_k
        /\ \A i \in 1..Len(last.result.results) :
               /\ has_node(graph, last.result.results[i].clause_id)
               /\ graph.attr[last.result.results[i].clause_id].type = "clause"

\* A cut of at least two ranked nodes held a placeholder node, which was
\* dropped, and a clause node, which was returned.
C13_Witness ==
    /\ Ranked
    /\ last.arg.top_k >= 2
    /\ Len(last.result.results) >= 1
    /\ Len(last.result.results) < Min(last.arg.top_k, number_of_nodes(graph))

\* C14: results come in descending order of score, and two results of equal
\* score in ascending order of node id.
C14_ScoreThenIdOrder ==
    RetrieveCalled =>
        \A i \in 1..Len(last.result.results) : \A j \in 1..Len(last.result.results) :
            i < j =>
                \/ last.result.results[i].ppr_score > last.result.results[j].ppr_score
                \/ /\ last.result.results[i].ppr_score = last.result.results[j].ppr_score
                   /\ IdRank[last.result.results[i].clause_id]
                         < IdRank[last.result.results[j].clause_id]

\* C15: when a seed is valid and PageRank returns scores, the call returns
\* exactly min(top_k, number of clause nodes) results.
C15_ExactlyMinTopKClauses ==
    (Ranked /\ last.arg.top_k >= 0) =>
        Len(last.result.results)
            = Min(last.arg.top_k, Cardinality(ClauseNodes(graph)))

\* What the caller of retrieve_with_hipporag gets.
Outcome(r) == [status |-> r.status, results |-> r.results, exc |-> r.exc]

\* C16: the outcome of a call whose vector search returned ids none of which
\* is a node of the graph differs from the outcome of the call whose vector
\* search returned no id.
C16_DesyncDistinguishable ==
    (/\ RetrieveCalled
     /\ last.arg.seed_node_ids # <<>>
     /\ \A n \in SeqToSet(last.arg.seed_node_ids) : ~has_node(graph, n)) =>
        Outcome(last.result)
            # Outcome(retrieve_with_hipporag(graph, <<>>, last.arg.top_k,
                                             last.arg.pagerank_error))

---------------------------------------------------------------------------
(* Properties of the edge builders *)

\* C17: after build_knowledge_graph, for every supplied triplet (s, p, o)
\* the graph holds an edge from s to o with relation p and weight 1.0.
C17_AssertedEdgesKept ==
    LastIs("build_knowledge_graph") =>
        \A k \in 1..Len(last.arg.triplets) :
            \E e \in EdgesBetween(graph, last.arg.triplets[k].subject,
                                   last.arg.triplets[k].object) :
                /\ e.relation = last.arg.triplets[k].predicate
                /\ e.confidence = 10

\* add_semantic_similarity_edges has run, on its own or inside
\* build_knowledge_graph.
SimilarityCalled ==
    LastIs("add_semantic_similarity_edges") \/ LastIs("build_knowledge_graph")

\* The edges out of u that the call of add_semantic_similarity_edges has
\* created or rewritten.
SimilarityEdgesAdded(u) ==
    {e \in DOMAIN graph.adj :
        /\ e[1] = u
        /\ \/ e \notin DOMAIN last.result.before_similarity.adj
           \/ last.result.before_similarity.adj[e] # graph.adj[e]}

\* The ids of the clauses of the list that have an embedding in the builder.
EmbeddedClauseIds ==
    {last.arg.clauses[k].id : k \in 1..Len(last.arg.clauses)} \cap DOMAIN node_embeddings

\* C18: a call of add_semantic_similarity_edges adds only SIMILAR_TO edges,
\* only between embedded clauses of the list whose cosine similarity is at or
\* above similarity_threshold, and at most max_edges_per_node out of a node.
C18_SimilarOnlyAboveThresholdCapped ==
    SimilarityCalled =>
        \A u \in NodeSet(graph) :
            /\ Cardinality(SimilarityEdgesAdded(u)) <= last.arg.max_edges_per_node
            /\ \A e \in SimilarityEdgesAdded(u) :
                   /\ graph.adj[e].relation = "SIMILAR_TO"
                   /\ e[1] \in EmbeddedClauseIds /\ e[2] \in EmbeddedClauseIds
                   /\ dot(node_embeddings[e[1]], node_embeddings[e[2]]) >= 0
                   /\ dot(node_embeddings[e[1]], node_embeddings[e[2]])
                        * dot(node_embeddings[e[1]], node_embeddings[e[2]]) * 100 * 100
                      >= last.arg.similarity_threshold * last.arg.similarity_threshold
                           * dot(node_embeddings[e[1]], node_embeddings[e[1]])
                           * dot(node_embeddings[e[2]], node_embeddings[e[2]])

\* A call on four embedded clauses with max_edges_per_node = 1 has added one
\* edge out of a node that has two neighbours above the threshold, and none
\* to a neighbour below it.
C18_Witness ==
    /\ LastIs("add_semantic_similarity_edges")
    /\ last.arg.max_edges_per_node = 1
    /\ Cardinality(EmbeddedClauseIds) = 4
    /\ Cardinality(SimilarityEdgesAdded("D")) = 1
    /\ SimilarityEdgesAdded("A") # {}
    /\ <<"A", "D">> \notin DOMAIN graph.adj

\* C19: no builder operation creates a self-loop.
C19_NoSelfLoop ==
    \A e \in DOMAIN graph.adj : e[1] # e[2]

---------------------------------------------------------------------------
(* Properties of load without the companion file *)

\* C20: load(path) of a snapshot whose companion embedding file is absent
\* succeeds, and afterwards the builder's embedding map is empty.
C20_LoadWithoutCompanionEmpty ==
    (/\ LastIs("load")
     /\ disk[last.arg.path].topology_exists
     /\ ~disk[last.arg.path].embeddings_exists) =>
        /\ last.result = None
        /\ node_embeddings = EmptyDict

---------------------------------------------------------------------------
(* Properties of load on a mismatched companion file *)

\* The node ids of a topology document.
TopologyIds(data) == {data.nodes[i].id : i \in 1..Len(data.nodes)}

\* C21: load(path) fails with an error and leaves the store uninitialized
\* when the companion embedding file holds an id that is not a node of the
\* loaded topology.
C21_MismatchLoadFails ==
    (/\ LastIs("load")
     /\ disk[last.arg.path].embeddings_exists
     /\ \E id \in DOMAIN disk[last.arg.path].embeddings :
           id \notin TopologyIds(disk[last.arg.path].topology)) =>
        /\ last.result # None
        /\ graph = EmptyGraph
        /\ node_embeddings = EmptyDict

---------------------------------------------------------------------------
(* Properties of the service registry *)

Called == SelectSeq(history, LAMBDA e : e.op = "get_regulation_service")

\* C22: over any sequence of get_regulation_service calls, at most one
\* RegulationService is created (and at most one snapshot loaded) per
\* jurisdiction, country strings that differ only in letter case denote the
\* same jurisdiction, and every later call returns the resident instance.
C22_OneServicePerJurisdiction ==
    /\ \A i, j \in DOMAIN Created :
          Created[i].result.country = Created[j].result.country => i = j
    /\ \A i, j \in DOMAIN Called :
          lower(Called[i].arg) = lower(Called[j].arg) =>
              Called[i].result = Called[j].result
    /\ \A i \in DOMAIN Called :
          /\ Called[i].result.country = lower(Called[i].arg)
          /\ \E d \in DOMAIN regulation_services :
                regulation_services[d] = Called[i].result

\* Two calls whose country strings differ in letter case only were answered,
\* and a single instance, which loaded a snapshot, was created.
C22_Witness ==
    /\ Len(Created) = 1
    /\ Created[1].result.loaded
    /\ \E i, j \in DOMAIN Called :
          /\ i < j
          /\ Called[i].arg # Called[j].arg
          /\ lower(Called[i].arg) = lower(Called[j].arg)

---------------------------------------------------------------------------
(* Properties of ingestion, retrieval and restart in one jurisdiction *)

\* The graph as it was at the most recent save of the jurisdiction.
LatestSnapshot ==
    IF history = <<>> THEN EmptyGraph ELSE history[Len(history)].result

\* C23: no retrieve_with_hipporag call runs between the start and the end
\* of an ingest_regulation call on the same service, so every id the vector
\* search hands to a retrieval is a node of the graph.
C23_IngestExcludesRetrieval ==
    LastIs("retrieve_with_hipporag") =>
        /\ ~Ingesting
        /\ \A id \in SeqToSet(last.arg.seed_node_ids) : has_node(graph, id)

\* C24: an ingestion never overwrites a clause node that an earlier
\* ingestion created: the node keeps the text and attributes first stored.
C24_ClauseNodeNeverOverwritten ==
    (LastIs("ingest_regulation") /\ last.result = "complete") =>
        \A n \in NodeSet(pre) : has_node(graph, n) /\ graph.attr[n] = pre.attr[n]

\* C25: the graph loaded at a restart is the graph of the most recent save
\* of the jurisdiction, as load reads that save back.
C25_RestartLoadsLatestSave ==
    LastIs("restart") =>
        graph = load_graph(save_files(LatestSnapshot, EmptyDict))

\* C26: while no ingestion is in progress, every clause id of the vector
\* index is a node of the graph and of the last saved snapshot.
C26_IndexWithinGraphAndSnapshot ==
    ~Ingesting =>
        \A id \in DOMAIN collection :
            has_node(graph, id) /\ has_node(LatestSnapshot, id)

\* C29: a retrieval finds the clauses ingested for the jurisdiction
\* whatever the letter case of its country string: every indexed clause
\* whose country differs from the query's in case only is among the seeds.
C29_CountryFilterIgnoresCase ==
    (LastIs("retrieve_with_hipporag") /\ ~Ingesting) =>
        \A id \in DOMAIN collection :
            lower(collection[id].country) = lower(last.arg.country) =>
                id \in SeqToSet(last.arg.seed_node_ids)

---------------------------------------------------------------------------
(* Properties of the temp file *)

\* C27: two concurrent requests that upload files of the same name do not
\* interfere through ./data/temp/<filename>: a request that is past its
\* read found the file and read back exactly the bytes it wrote.
C27_TempFileNotShared ==
    \A r \in DOMAIN tasks :
        tasks[r].pc \in {"processing", "done"} =>
            /\ tasks[r].read.ok
            /\ tasks[r].read.bytes = tasks[r].content

---------------------------------------------------------------------------
(* Properties of LavaAgent.call *)

\* What a call has done so far agrees with the retry rule: at most
\* max_retries requests; every response but the last was a 429, each
\* followed by a sleep of 2 * 2^k seconds for the 0-based attempt k; a call
\* that ended returned the JSON of a 200 response or raised on a response
\* that was not 200, a 429 only when it was the fifth; it never returned
\* None.
CallFollowsRetryRule(c) ==
    LET t == tasks[c]
        n == Len(t.statuses)
    IN  /\ n <= 5
        /\ \A k \in 1..(n - 1) : t.statuses[k] = 429
        /\ Len(t.slept) = (IF t.pc = "client.post" THEN n
                           ELSE IF t.pc = "asyncio.sleep" THEN n
                           ELSE n - 1)
        /\ \A k \in 1..Len(t.slept) : t.slept[k] = 2 * 2 ^ (k - 1)
        /\ t.pc = "asyncio.sleep" => t.statuses[n] = 429 /\ n <= 4
        /\ t.pc = "done" =>
             /\ t.outcome \in {"response.json()", "raise"}
             /\ t.outcome = "response.json()" <=> t.statuses[n] = 200
             /\ t.statuses[n] = 429 => n = 5

---------------------------------------------------------------------------
(* Properties of check_pdf_compliance *)

\* C30: check_pdf_compliance reports overall_status "COMPLIANT" only if the
\* check of every chunk completed without error: no chunk's check raised or
\* returned an error result.
C30_CompliantOnlyWithoutErrors ==
    (LastIs("check_pdf_compliance") /\ last.result.overall_status = "COMPLIANT") =>
        \A i \in DOMAIN last.arg :
            /\ ~last.arg[i].raised
            /\ "error" \notin DOMAIN last.arg[i].result

====
